---------------------------- MODULE Spec2Model ----------------------------
(***************************************************************************)
(* Model of "lib:indexeddb ls" (src/js globals/indexeddb ls.js, v15):      *)
(* createDB(name) gives every tab (peer) an in-memory mirror `state` of an *)
(* IndexedDB object store, a leader election over a BroadcastChannel and a *)
(* batch write engine.                                                     *)
(*                                                                         *)
(* One peer is a record (PeerRec) whose fields carry the names of the      *)
(* closure variables of createDB.  Every JavaScript function is an         *)
(* operator from peer record to peer record; an action is one task of the  *)
(* event loop (an application call, a message handler, a timer, a          *)
(* microtask, a transaction completing) and runs its handler to the end.   *)
(*                                                                         *)
(* Time.  electLeader reads a timestamp t of `tabs` only through           *)
(* Date.now() - t < LEADER_TIMEOUT, so tabs holds the age Date.now() - t,  *)
(* saturated at LEADER_TIMEOUT, and Tick ages every entry by one heartbeat *)
(* interval.                                                               *)
(*                                                                         *)
(* Values.  In the mirror a value is a primitive 1..MaxVal, 0 (undefined / *)
(* no property) or a reference -i to object i of the peer's heap `objs`.   *)
(* A value that crosses postMessage or IndexedDB is a structured clone: a  *)
(* tree (Prim, ObjV) with no identity.                                     *)
(*                                                                         *)
(* Object store.  openDB creates the store with keyPath null only when the *)
(* database does not exist yet (onupgradeneeded, lines 23-29); a database  *)
(* left by version 13 of the script has a store with keyPath "id".  flush  *)
(* calls store.put(item) without a key: with keyPath "id" the record's key *)
(* is item.id, with keyPath null the call throws DataError.  `keyPath` is  *)
(* which of the two stores the tabs have found.                            *)
(***************************************************************************)
EXTENDS Integers, Sequences, FiniteSets, TLC

\* ---------------------------------------------------------------- bounds
NumPeers == 3        \* tabs that ever open the store; TAB_ID is 1..NumPeers
MaxOps == 3          \* calls the application makes under Spec
MaxVal == 2          \* primitive values 1..MaxVal
MaxObj == 2          \* live objects in one peer's heap
MaxQueue == 2        \* entries in one writeQueue
MaxInbox == 2        \* undelivered messages per peer
MaxTx == 2           \* transactions waiting on the object store
MaxWaiters == 1      \* unresolved doneSaving promises per peer

\* ------------------------------------------------------ program constants
HEARTBEAT_INTERVAL == 1000
LEADER_TIMEOUT == 3000

Peers == 1..NumPeers
ObjIds == 1..MaxObj
Prims == 1..MaxVal
TopKeys == {"x", "y"}
Fields == {"z"}
NoTab == -1

Min(S) == CHOOSE m \in S : \A n \in S : m <= n

\* --------------------------------------------------------- cloned values
NoFields == [f \in Fields |-> 0]
Undef == [obj |-> FALSE, v |-> 0, f |-> NoFields]
Prim(n) == [obj |-> FALSE, v |-> n, f |-> NoFields]
ObjV(fs) == [obj |-> TRUE, v |-> 0, f |-> fs]

Paths == {<<k>> : k \in TopKeys} \cup {<<k, f>> : k \in TopKeys, f \in Fields}

\* ------------------------------------------------------------- messages
Msg(type, id, key, value, items) ==
    [type |-> type, id |-> id, key |-> key, value |-> value, items |-> items]
CoordMsg(type, id) == Msg(type, id, <<>>, Undef, <<>>)

VARIABLES peers, inbox, store, keyPath, txq, last, hist
vars == <<peers, inbox, store, keyPath, txq, last, hist>>

\* ------------------------------------------------------------ peer record
\* emitted, posted, opened, resolved and notes are what the running handler
\* has emitted (emit), posted (channel.postMessage), opened (readwrite
\* transactions), resolved (doneSaving promises) and which early returns it
\* took; every action moves them to `last`, the inboxes and the transaction
\* queue and leaves them empty.
NewPeer(id) ==
    [TAB_ID |-> id, status |-> "new",
     tabs |-> [q \in Peers |-> NoTab], leaderId |-> id, isLeader |-> TRUE,
     hbDue |-> FALSE,
     writeQueue |-> <<>>, flushScheduled |-> FALSE, flushing |-> FALSE,
     items |-> <<>>, pendingResolves |-> 0,
     state |-> [k \in TopKeys |-> 0],
     objs |-> [o \in ObjIds |-> NoFields],
     proxyCache |-> [o \in ObjIds |-> <<>>],
     held |-> 0, appTask |-> FALSE,
     emitted |-> <<>>, posted |-> <<>>, opened |-> <<>>, resolved |-> 0,
     notes |-> {}]

Event(name, key, val) == [name |-> name, key |-> key, val |-> val]

emit(P, name, key, val) ==
    [P EXCEPT !.emitted = Append(@, Event(name, key, val))]

postMessage(P, m) == [P EXCEPT !.posted = Append(@, m)]

\* ------------------------------------------------------------ leader system
alive(P) == {q \in Peers : P.tabs[q] # NoTab /\ P.tabs[q] < LEADER_TIMEOUT}

\* electLeader as it would be without the early return of line 136: it
\* assigns and emits also when the computed leader is the current one.
electLeader_always(P) ==
    IF alive(P) = {} THEN [P EXCEPT !.notes = @ \cup {"alive-empty"}]
    ELSE LET newLeader == Min(alive(P))
             wasLeader == P.isLeader
             P1 == [P EXCEPT !.leaderId = newLeader,
                             !.isLeader = (newLeader = P.TAB_ID)]
             P2 == IF ~P1.isLeader /\ wasLeader
                   THEN emit(P1, "leader-stepped-down", <<>>,
                             <<P.TAB_ID, newLeader>>)
                   ELSE P1
         IN IF P2.isLeader
            THEN emit(P2, "leader-elected", <<>>, <<newLeader>>)
            ELSE P2

\* electLeader as it would be if it assigned isLeader only when the peer
\* becomes leader: a peer that steps down keeps the flag.
electLeader_keepsFlag(P) ==
    IF alive(P) = {} THEN [P EXCEPT !.notes = @ \cup {"alive-empty"}]
    ELSE LET newLeader == Min(alive(P)) IN
         IF newLeader = P.leaderId THEN P
         ELSE LET P1 == [P EXCEPT !.leaderId = newLeader,
                                  !.isLeader = @ \/ newLeader = P.TAB_ID]
              IN IF newLeader = P.TAB_ID
                 THEN emit(P1, "leader-elected", <<>>, <<newLeader>>)
                 ELSE P1

electLeader(P) ==
    IF alive(P) = {} THEN [P EXCEPT !.notes = @ \cup {"alive-empty"}]
    ELSE LET newLeader == Min(alive(P)) IN
         IF newLeader = P.leaderId THEN P
         ELSE LET wasLeader == P.isLeader
                  P1 == [P EXCEPT !.leaderId = newLeader,
                                  !.isLeader = (newLeader = P.TAB_ID)]
                  P2 == IF ~P1.isLeader /\ wasLeader
                        THEN emit(P1, "leader-stepped-down", <<>>,
                                  <<P.TAB_ID, newLeader>>)
                        ELSE P1
              IN IF P2.isLeader
                 THEN emit(P2, "leader-elected", <<>>, <<newLeader>>)
                 ELSE P2

heartbeat(P) == postMessage(P, CoordMsg("heartbeat", P.TAB_ID))

onAnnounce(P, m) == electLeader([P EXCEPT !.tabs[m.id] = 0])

onGoodbye(P, m) == electLeader([P EXCEPT !.tabs[m.id] = NoTab])

\* ------------------------------------------------------------------ heap
\* Objects the program can still reach: from the mirror, from queued or
\* in-flight items (they hold the value itself, not a copy) and through the
\* wrapper the application keeps (a Proxy references its target).
SeqRefs(q) == {-(q[i].val) : i \in {j \in 1..Len(q) : q[j].val < 0}}

Live(P) ==
    {-(P.state[k]) : k \in {j \in TopKeys : P.state[j] < 0}}
    \cup SeqRefs(P.writeQueue) \cup SeqRefs(P.items)
    \cup (IF P.held = 0 THEN {} ELSE {P.held})

\* An unreachable object is collected, and its proxyCache entry with it
\* (proxyCache is a WeakMap).
Collect(P) ==
    [P EXCEPT !.objs = [o \in ObjIds |-> IF o \in Live(P) THEN @[o] ELSE NoFields],
              !.proxyCache = [o \in ObjIds |-> IF o \in Live(P) THEN @[o] ELSE <<>>]]

\* structuredClone of a mirror value (postMessage, store.put).
Clone(P, h) ==
    IF h < 0 THEN ObjV(P.objs[-h]) ELSE IF h = 0 THEN Undef ELSE Prim(h)

\* The top-level entries of the mirror of P, as clones.
Tree(P) == [k \in TopKeys |-> Clone(P, P.state[k])]

\* A received clone becomes a value of this peer: an object is a new object.
\* <<peer record, value>>; the note "heap-full" when MaxObj objects are live.
Intern(P, t) ==
    IF ~t.obj THEN <<P, t.v>>
    ELSE IF ObjIds \ Live(P) = {}
         THEN <<[P EXCEPT !.notes = @ \cup {"heap-full"}], 0>>
         ELSE LET o == Min(ObjIds \ Live(P))
              IN <<[P EXCEPT !.objs[o] = t.f, !.proxyCache[o] = <<>>], -o>>

\* Lines 84-95, for the paths of the model (one or two keys).
setByPath(P, pathArray, value) ==
    LET k == pathArray[1] IN
    IF Len(pathArray) = 1
    THEN IF value = Undef THEN [P EXCEPT !.state[k] = 0]
         ELSE LET r == Intern([P EXCEPT !.state[k] = 0], value)
              IN [r[1] EXCEPT !.state[k] = r[2]]
    ELSE LET r == IF P.state[k] < 0 THEN <<P, P.state[k]>>
                  ELSE Intern([P EXCEPT !.state[k] = 0], ObjV(NoFields))
             P1 == [r[1] EXCEPT !.state[k] = r[2]]
         IN IF r[2] = 0 THEN P1
            ELSE [P1 EXCEPT !.objs[-r[2]][pathArray[2]] = value.v]

RECURSIVE setAll(_, _)
setAll(P, recs) ==
    IF recs = <<>> THEN P
    ELSE setAll(setByPath(P, Head(recs).id, Head(recs).val), Tail(recs))

\* ------------------------------------------------------ batch write engine
scheduleFlush(P) ==
    IF P.flushScheduled THEN P ELSE [P EXCEPT !.flushScheduled = TRUE]

\* writeQueue is a Map keyed by the path ARRAY.  Every caller builds a new
\* array ([prop], [...basePath, prop], the clone in msg.key), and a Map
\* compares object keys by identity, so set() never finds an existing key:
\* it adds an entry, in insertion order.
mapSet(q, pathArray, value) == Append(q, [id |-> pathArray, val |-> value])

\* queueWrite as it would be if a follower kept the entry as well: it
\* forwards the write and also queues it locally.
queueWrite_keeps(P, pathArray, value) ==
    LET P1 == IF P.isLeader THEN P
              ELSE postMessage(P, Msg("write-request", 0, pathArray,
                                      Clone(P, value), <<>>))
    IN IF Len(P1.writeQueue) >= MaxQueue
       THEN [P1 EXCEPT !.notes = @ \cup {"queue-full"}]
       ELSE scheduleFlush([P1 EXCEPT !.writeQueue = mapSet(@, pathArray, value)])

queueWrite(P, pathArray, value) ==
    IF ~P.isLeader
    THEN postMessage(P, Msg("write-request", 0, pathArray, Clone(P, value), <<>>))
    ELSE IF Len(P.writeQueue) >= MaxQueue
         THEN [P EXCEPT !.notes = @ \cup {"queue-full"}]
         ELSE scheduleFlush([P EXCEPT !.writeQueue = mapSet(@, pathArray, value)])

resolvePending(P) ==
    [P EXCEPT !.resolved = @ + P.pendingResolves, !.pendingResolves = 0]

\* The operations of the transaction flush opens: store.delete(item.id) for
\* undefined, store.put(item) otherwise; put clones the item when called.
TxOps(P, its) ==
    [i \in 1..Len(its) |-> [id |-> its[i].id, val |-> Clone(P, its[i].val)]]

\* the finally block (lines 236-240).
flushFinally(P) ==
    LET P1 == resolvePending([P EXCEPT !.flushing = FALSE, !.items = <<>>])
    IN IF P1.writeQueue # <<>> THEN scheduleFlush(P1) ELSE P1

\* flush on a store with keyPath null: the first store.put(item) throws
\* DataError inside the promise executor (line 228), so the promise rejects
\* and the finally block runs, in microtasks of the same task.  The
\* transaction holds the deletes requested before the throw and has no
\* handler.
flushThrown(P) ==
    LET n == Min({i \in 1..Len(P.writeQueue) : P.writeQueue[i].val # 0})
    IN flushFinally(
         [P EXCEPT !.writeQueue = <<>>,
                   !.notes = @ \cup {"DataError", "flush-rejected"},
                   !.opened = Append(@, [kind |-> "thrown", peer |-> P.TAB_ID,
                                         by |-> "flush",
                                         ops |-> TxOps(P, SubSeq(P.writeQueue,
                                                                 1, n - 1))])])

\* flush up to its await (lines 210-232).
flush(P) ==
    IF P.flushing \/ ~P.isLeader \/ P.writeQueue = <<>>
    THEN resolvePending(P)
    ELSE IF keyPath = "null"
            /\ \E i \in 1..Len(P.writeQueue) : P.writeQueue[i].val # 0
    THEN flushThrown(P)
    ELSE [P EXCEPT !.flushing = TRUE, !.items = P.writeQueue,
                   !.writeQueue = <<>>,
                   !.opened = Append(@, [kind |-> "flush", peer |-> P.TAB_ID,
                                         by |-> "flush",
                                         ops |-> TxOps(P, P.writeQueue)])]

\* flush after tx.oncomplete (lines 234-240); postMessage clones items now.
flushCommitted(P) ==
    flushFinally(emit(postMessage(P, Msg("external-update", 0, <<>>, Undef,
                                         TxOps(P, P.items))),
                      "flush", <<>>, <<>>))

\* flush after tx.onerror: the promise rejects, the try block is left, finally
\* runs and the flush call rejects.
flushFailed(P) == flushFinally([P EXCEPT !.notes = @ \cup {"flush-rejected"}])

doneSaving(P) ==
    IF P.writeQueue = <<>> /\ ~P.flushing /\ ~P.flushScheduled
    THEN [P EXCEPT !.resolved = @ + 1]
    ELSE [P EXCEPT !.pendingResolves = @ + 1]

\* applyExternal as it would be if it wrote through the proxy's set path:
\* every item is handed to queueWrite as well.
RECURSIVE requeue(_, _)
requeue(P, its) ==
    IF its = <<>> THEN P
    ELSE requeue(queueWrite(P, Head(its).id,
                            IF Head(its).val.obj THEN P.state[Head(its).id[1]]
                            ELSE Head(its).val.v),
                 Tail(its))

applyExternal_requeues(P, items) ==
    emit(emit(requeue(setAll(P, items), items), "external-change", <<>>, <<>>),
         "change:external", <<>>, <<>>)

\* applyExternal (lines 256-260).
applyExternal(P, items) ==
    emit(emit(setAll(P, items), "external-change", <<>>, <<>>),
         "change:external", <<>>, <<>>)

\* --------------------------------------------------------- reactive proxy
\* handler.set (lines 339-345); value is already a value of this peer.
handlerSet(P, prop, value) ==
    emit(emit(queueWrite([P EXCEPT !.state[prop] = value], <<prop>>, value),
              "set", <<prop>>, <<value>>),
         "change:set", <<prop>>, <<value>>)

\* handler.deleteProperty (lines 346-353).
handlerDelete(P, prop) ==
    IF P.state[prop] = 0 THEN P
    ELSE emit(emit(queueWrite([P EXCEPT !.state[prop] = 0], <<prop>>, 0),
                   "delete", <<prop>>, <<>>),
              "change:delete", <<prop>>, <<>>)

\* handler.get default (line 336) -> reactive(state[prop], [prop]) (lines
\* 272-299) for an object: the cached wrapper if the object has one, else a
\* new wrapper whose basePath is [prop].  The application keeps the wrapper.
reactive(P, prop) ==
    LET o == -(P.state[prop])
    IN [P EXCEPT !.proxyCache[o] = IF @ = <<>> THEN <<prop>> ELSE @,
                 !.held = o]

\* set trap of the kept wrapper (lines 280-285).
proxySet(P, prop, value) ==
    LET path == P.proxyCache[P.held] \o <<prop>>
    IN emit(queueWrite([P EXCEPT !.objs[P.held][prop] = value], path, value),
            "change:set", path, <<>>)

\* deleteProperty trap of the kept wrapper (lines 286-294).
proxyDelete(P, prop) ==
    LET path == P.proxyCache[P.held] \o <<prop>>
    IN emit(queueWrite([P EXCEPT !.objs[P.held][prop] = 0], path, 0),
            "change:delete", path, <<>>)

\* saveall up to its await (lines 325-328), in the order of KeyRank.
KeyRank(k) == CASE k = "x" -> 1 [] k = "y" -> 2 [] OTHER -> 3

RECURSIVE queueEntries(_, _)
queueEntries(P, ks) ==
    IF ks = {} THEN P
    ELSE LET k == CHOOSE a \in ks : \A b \in ks : KeyRank(a) <= KeyRank(b)
         IN queueEntries(queueWrite(P, <<k>>, P.state[k]), ks \ {k})

\* `await flush()` (line 328): saveall's promise settles with flush's.  The
\* early return of flush resolves it at once, a thrown put rejects it at
\* once, and otherwise it settles when the transaction flush opened (marked
\* by "saveall") ends.
saveall(P) ==
    LET Q == flush(queueEntries(P, {k \in TopKeys : P.state[k] # 0}))
        n == Len(Q.opened)
    IN IF "DataError" \in Q.notes
       THEN [Q EXCEPT !.notes = @ \cup {"saveall-rejected"}]
       ELSE IF n > Len(P.opened)
       THEN [Q EXCEPT !.opened[n].by = "saveall"]
       ELSE [Q EXCEPT !.notes = @ \cup {"saveall-resolved"}]

\* The promise of the caller of the flush whose transaction tx has ended.
settle(P, tx, outcome) ==
    IF tx.by = "saveall" THEN [P EXCEPT !.notes = @ \cup {outcome}] ELSE P

\* clear after its await (lines 318-322).
clearDone(P) ==
    emit(emit([P EXCEPT !.state = [k \in TopKeys |-> 0]], "clear", <<>>, <<>>),
         "change:clear", <<>>, <<>>)

\* ----------------------------------------------------- the object store
\* IndexedDB orders keys: arrays element by element, a prefix first.
PathLess(a, b) ==
    \/ KeyRank(a[1]) < KeyRank(b[1])
    \/ a[1] = b[1] /\ Len(a) < Len(b)
    \/ a[1] = b[1] /\ Len(a) = 2 /\ Len(b) = 2 /\ KeyRank(a[2]) < KeyRank(b[2])

RECURSIVE sortedRecords(_, _)
sortedRecords(st, ps) ==
    IF ps = {} THEN <<>>
    ELSE LET a == CHOOSE x \in ps : \A y \in ps \ {x} : PathLess(x, y)
         IN <<[id |-> a, val |-> st[a]]>> \o sortedRecords(st, ps \ {a})

\* idb.getAll (lines 48-55).
getAll(st) == sortedRecords(st, {a \in Paths : st[a] # Undef})

RECURSIVE transact(_, _)
transact(st, ops) ==
    IF ops = <<>> THEN st
    ELSE transact([st EXCEPT ![Head(ops).id] = Head(ops).val], Tail(ops))

EmptyStore == [a \in Paths |-> Undef]

\* createDB (lines 74-178): load, become one's own leader, say hello.
createDB(id, st) ==
    LET P == setAll(NewPeer(id), getAll(st))
    IN postMessage([P EXCEPT !.status = "up", !.tabs[id] = 0],
                   CoordMsg("hello", id))

\* ---------------------------------------------------------------- actions
Up(p) == peers[p].status = "up"

Broadcast(p, ms) ==
    [q \in Peers |-> IF q # p /\ Up(q) THEN inbox[q] \o ms ELSE inbox[q]]

Strip(P) ==
    [P EXCEPT !.emitted = <<>>, !.posted = <<>>, !.opened = <<>>,
              !.resolved = 0, !.notes = {}]

\* One task of peer p: handler result P, the inboxes inb and the transaction
\* queue tq it started from.  The first four conjuncts are the bounds of the
\* model: a task whose run would exceed one is not run.
Run(p, op, P, path, val, app, inb, tq) ==
    /\ P.notes \cap {"heap-full", "queue-full"} = {}
    /\ P.pendingResolves <= MaxWaiters
    /\ Len(tq) + Len(P.opened) <= MaxTx
    /\ \A q \in Peers \ {p} : Up(q) => Len(inb[q]) + Len(P.posted) <= MaxInbox
    /\ peers' = [peers EXCEPT ![p] =
                   [Collect(Strip(P)) EXCEPT !.appTask = app /\ P.flushScheduled]]
    /\ inbox' = [q \in Peers |-> IF q # p /\ Up(q) THEN inb[q] \o P.posted
                                 ELSE inb[q]]
    /\ txq' = tq \o P.opened
    /\ keyPath' = keyPath
    /\ last' = [op |-> op, peer |-> p, path |-> path, val |-> val,
                emitted |-> P.emitted, posted |-> P.posted,
                resolved |-> P.resolved, notes |-> P.notes]

Done(p, op, P, path, val, app) == Run(p, op, P, path, val, app, inbox, txq)

\* A task of the application may run when no microtask of another task is
\* pending; a task of the event loop only when no microtask is pending.
AppMay(p) == Up(p) /\ (peers[p].flushScheduled => peers[p].appTask)
Calls(p) == AppMay(p) /\ hist.ops < MaxOps
LoopMay(p) == Up(p) /\ ~peers[p].flushScheduled

Start(p) ==
    /\ peers[p].status = "new"
    /\ Done(p, "createDB", createDB(p, store), <<>>, 0, FALSE)
    /\ UNCHANGED <<store, hist>>

Gone(p) == [NewPeer(p) EXCEPT !.status = "down"]

\* beforeunload (lines 176-178), then the tab is gone.
Unload(p) ==
    /\ Up(p)
    /\ \A q \in Peers \ {p} : Up(q) => Len(inbox[q]) < MaxInbox
    /\ peers' = [peers EXCEPT ![p] = Gone(p)]
    /\ inbox' = [Broadcast(p, <<CoordMsg("goodbye", p)>>) EXCEPT ![p] = <<>>]
    /\ last' = [op |-> "unload", peer |-> p, path |-> <<>>, val |-> 0,
                emitted |-> <<>>, posted |-> <<CoordMsg("goodbye", p)>>,
                resolved |-> 0, notes |-> {}]
    /\ UNCHANGED <<store, keyPath, txq, hist>>

\* The tab is killed or frozen: no goodbye, no more heartbeats.
Crash(p) ==
    /\ Up(p)
    /\ peers' = [peers EXCEPT ![p] = Gone(p)]
    /\ inbox' = [inbox EXCEPT ![p] = <<>>]
    /\ last' = [op |-> "crash", peer |-> p, path |-> <<>>, val |-> 0,
                emitted |-> <<>>, posted |-> <<>>, resolved |-> 0, notes |-> {}]
    /\ UNCHANGED <<store, keyPath, txq, hist>>

Age(t) == IF t = NoTab THEN NoTab
          ELSE IF t + HEARTBEAT_INTERVAL >= LEADER_TIMEOUT THEN LEADER_TIMEOUT
          ELSE t + HEARTBEAT_INTERVAL

\* One heartbeat interval passes: every timer callback and every message of
\* the interval has run, and every setInterval timer becomes due.
Tick ==
    /\ \E p \in Peers : Up(p)
    /\ \A p \in Peers : Up(p) => /\ ~peers[p].hbDue
                                 /\ inbox[p] = <<>>
                                 /\ ~peers[p].flushScheduled
    /\ peers' = [p \in Peers |->
                   IF Up(p)
                   THEN [peers[p] EXCEPT !.hbDue = TRUE,
                                         !.tabs = [q \in Peers |-> Age(@[q])]]
                   ELSE peers[p]]
    /\ last' = [op |-> "tick", peer |-> 0, path |-> <<>>, val |-> 0,
                emitted |-> <<>>, posted |-> <<>>, resolved |-> 0, notes |-> {}]
    /\ UNCHANGED <<inbox, store, keyPath, txq, hist>>

\* setInterval(heartbeat, HEARTBEAT_INTERVAL) (line 175).
Heartbeat(p) ==
    /\ LoopMay(p) /\ peers[p].hbDue
    /\ Done(p, "heartbeat", heartbeat([peers[p] EXCEPT !.hbDue = FALSE]),
            <<>>, 0, FALSE)
    /\ UNCHANGED <<store, hist>>

\* channel.onmessage (lines 152-172), one action per message type.
Recv(p, type, op, P) ==
    /\ LoopMay(p) /\ inbox[p] # <<>> /\ Head(inbox[p]).type \in type
    /\ Run(p, op, P, <<>>, 0, FALSE, [inbox EXCEPT ![p] = Tail(@)], txq)
    /\ UNCHANGED store

RecvAnnounce(p) ==
    /\ inbox[p] # <<>>
    /\ Recv(p, {"hello", "heartbeat"}, "announce",
            onAnnounce(peers[p], Head(inbox[p])))
    /\ UNCHANGED hist

RecvGoodbye(p) ==
    /\ inbox[p] # <<>>
    /\ Recv(p, {"goodbye"}, "goodbye", onGoodbye(peers[p], Head(inbox[p])))
    /\ UNCHANGED hist

\* ------------------------------------------------- history (not program state)
\* ops: the calls the application has made.  failed: a transaction has failed
\* or a flush has thrown.
\* clears: clear() has been called.  offTree: one object has been stored at
\* two keys, or a wrapper has been written through whose object is no longer
\* in the mirror at the wrapper's path.  cleared[p]: "pending" while a
\* clear() of p is under way and no value has been set since it was called,
\* "done" once it has completed and until the next set.  lastWrite[p]: the path and value (0 a tombstone, -1
\* an object) of p's most recent local set or delete, if p put it in its
\* own writeQueue; dropped when another peer writes under the same top-level
\* key or the store is cleared.  forwarded: the same for the most recent set
\* or delete a peer made while it was not leader (its write-request).
\* saved: the top-level entries of the mirror at the most recent saveall()
\* whose flush opened a transaction.  readAt: the path the application read
\* to get the wrapper it keeps.
NoWrite == [path |-> <<>>, val |-> 0]

Called(h) == [h EXCEPT !.ops = @ + 1]

Wrote(h, p, path, value) ==
    [h EXCEPT !.ops = @ + 1,
              !.cleared = [q \in Peers |-> "no"],
              !.lastWrite =
                 [q \in Peers |->
                    IF q = p
                    THEN IF peers[p].isLeader
                         THEN [path |-> path,
                               val |-> IF value < 0 THEN -1 ELSE value]
                         ELSE NoWrite
                    ELSE IF @[q].path # <<>> /\ @[q].path[1] = path[1]
                         THEN NoWrite ELSE @[q]],
              !.forwarded =
                 IF ~peers[p].isLeader
                 THEN [path |-> path, val |-> IF value < 0 THEN -1 ELSE value]
                 ELSE IF @.path # <<>> /\ @.path[1] = path[1]
                      THEN NoWrite ELSE @]

\* ------------------------------------------------- tasks of the application
\* db[k] = v, v a primitive.
SetTop(p, k, v) ==
    /\ Calls(p)
    /\ Done(p, "set", handlerSet(peers[p], k, v), <<k>>, v, TRUE)
    /\ hist' = Wrote(hist, p, <<k>>, v)
    /\ UNCHANGED store

\* db[k] = {z: ...}, a new object.
SetTopObj(p, k, fs) ==
    /\ Calls(p)
    /\ LET r == Intern(peers[p], ObjV(fs))
       IN Done(p, "set", handlerSet(r[1], k, r[2]), <<k>>, r[2], TRUE)
    /\ hist' = Wrote(hist, p, <<k>>, -1)
    /\ UNCHANGED store

\* db[k] = db.all[k2], the object itself that the mirror holds at k2.
AliasTop(p, k, k2) ==
    /\ Calls(p) /\ k # k2 /\ peers[p].state[k2] < 0
    /\ peers[p].state[k] # peers[p].state[k2]
    /\ Done(p, "set", handlerSet(peers[p], k, peers[p].state[k2]), <<k>>,
            peers[p].state[k2], TRUE)
    /\ hist' = [Wrote(hist, p, <<k>>, -1) EXCEPT !.offTree = TRUE]
    /\ UNCHANGED store

\* delete db[k]
DeleteTop(p, k) ==
    /\ Calls(p) /\ peers[p].state[k] # 0
    /\ Done(p, "delete", handlerDelete(peers[p], k), <<k>>, 0, TRUE)
    /\ hist' = Wrote(hist, p, <<k>>, 0)
    /\ UNCHANGED store

\* w = db[k], an object: the application keeps the wrapper.
ReadTop(p, k) ==
    /\ AppMay(p) /\ peers[p].state[k] < 0
    /\ peers[p].held # -(peers[p].state[k]) \/ hist.readAt # <<k>>
    /\ Done(p, "get", reactive(peers[p], k), <<k>>, 0, peers[p].appTask)
    /\ hist' = [hist EXCEPT !.readAt = <<k>>]
    /\ UNCHANGED store

\* The kept wrapper's object is not the one the mirror has at the wrapper's
\* path.
Detached(P) == P.state[P.proxyCache[P.held][1]] # -(P.held)

\* w[f] = v through the kept wrapper.
WrapSet(p, f, v) ==
    /\ Calls(p) /\ peers[p].held # 0
    /\ LET path == peers[p].proxyCache[peers[p].held] \o <<f>>
       IN /\ Done(p, "wset", proxySet(peers[p], f, v), path, v, TRUE)
          /\ hist' = [Wrote(hist, p, path, v) EXCEPT
                         !.offTree = @ \/ Detached(peers[p])]
    /\ UNCHANGED store

\* delete w[f] through the kept wrapper.
WrapDelete(p, f) ==
    /\ Calls(p) /\ peers[p].held # 0
    /\ LET path == peers[p].proxyCache[peers[p].held] \o <<f>>
       IN /\ Done(p, "wdelete", proxyDelete(peers[p], f), path, 0, TRUE)
          /\ hist' = [Wrote(hist, p, path, 0) EXCEPT
                         !.offTree = @ \/ Detached(peers[p])]
    /\ UNCHANGED store

\* db.doneSaving
DoneSaving(p) ==
    /\ Calls(p)
    /\ Done(p, "doneSaving", doneSaving(peers[p]), <<>>, 0, peers[p].appTask)
    /\ hist' = Called(hist)
    /\ UNCHANGED store

\* db.saveall()
SaveAll(p) ==
    /\ Calls(p) /\ \E k \in TopKeys : peers[p].state[k] # 0
    /\ Done(p, "saveall", saveall(peers[p]), <<>>, 0,
            "DataError" \notin saveall(peers[p]).notes)
    /\ hist' = [hist EXCEPT !.ops = @ + 1,
                            !.failed = @ \/ "DataError" \in saveall(peers[p]).notes,
                            !.cleared = [q \in Peers |-> "no"],
                            !.lastWrite = [q \in Peers |-> NoWrite],
                            !.saved = IF saveall(peers[p]).opened # <<>>
                                         /\ "DataError" \notin saveall(peers[p]).notes
                                      THEN Tree(peers[p]) ELSE @]
    /\ UNCHANGED store

\* db.clear() up to its await: idb.clearAll opens a readwrite transaction.
ClearStart(p) ==
    /\ Calls(p)
    /\ Done(p, "clear", [peers[p] EXCEPT !.opened =
                           Append(@, [kind |-> "clear", peer |-> p,
                                      by |-> "clear", ops |-> <<>>])],
            <<>>, 0, peers[p].appTask)
    /\ hist' = [hist EXCEPT !.ops = @ + 1, !.clears = TRUE,
                            !.cleared[p] = "pending"]
    /\ UNCHANGED store

\* ------------------------------------------------- tasks of the event loop
\* The microtask of scheduleFlush (lines 191-194).
FlushMicrotask(p) ==
    /\ Up(p) /\ peers[p].flushScheduled
    /\ Done(p, "flush", flush([peers[p] EXCEPT !.flushScheduled = FALSE]),
            <<>>, 0, FALSE)
    /\ hist' = [hist EXCEPT !.failed = @ \/ "DataError" \in last'.notes]
    /\ UNCHANGED store

RecvWriteRequest(p) ==
    /\ inbox[p] # <<>>
    /\ LET m == Head(inbox[p])
           r == Intern(peers[p], m.value)
       IN Recv(p, {"write-request"}, "write-request",
               IF peers[p].isLeader THEN queueWrite(r[1], m.key, r[2])
               ELSE peers[p])
    /\ UNCHANGED hist

RecvExternalUpdate(p) ==
    /\ inbox[p] # <<>>
    /\ Recv(p, {"external-update"}, "external-update",
            applyExternal(peers[p], Head(inbox[p]).items))
    /\ UNCHANGED hist

\* Readwrite transactions on one object store run one at a time, in the
\* order they were created: the head of txq is the one that ends next.
TxEnds(kind) ==
    /\ txq # <<>> /\ Head(txq).kind = kind
    /\ LoopMay(Head(txq).peer)

\* tx.oncomplete of flush's transaction.
FlushCommit ==
    /\ TxEnds("flush")
    /\ store' = transact(store, Head(txq).ops)
    /\ Run(Head(txq).peer, "flush-commit",
           settle(flushCommitted(peers[Head(txq).peer]), Head(txq),
                  "saveall-resolved"),
           <<>>, 0, FALSE, inbox, Tail(txq))
    /\ UNCHANGED hist

\* tx.onerror of flush's transaction.
FlushFail ==
    /\ TxEnds("flush")
    /\ Run(Head(txq).peer, "flush-fail",
           settle(flushFailed(peers[Head(txq).peer]), Head(txq),
                  "saveall-rejected"),
           <<>>, 0, FALSE, inbox, Tail(txq))
    /\ hist' = [hist EXCEPT !.failed = TRUE]
    /\ UNCHANGED store

\* The transaction of a flush is aborted with no request of it failing (the
\* commit fails: quota, disk).  IndexedDB then fires only `abort` at the
\* transaction; flush listens to oncomplete and onerror (lines 230-231), so
\* no handler runs and its promise stays pending.
FlushAbort ==
    /\ TxEnds("flush")
    /\ txq' = Tail(txq)
    /\ last' = [op |-> "flush-abort", peer |-> Head(txq).peer, path |-> <<>>,
                val |-> 0, emitted |-> <<>>, posted |-> <<>>, resolved |-> 0,
                notes |-> {}]
    /\ hist' = [hist EXCEPT !.failed = TRUE]
    /\ UNCHANGED <<peers, inbox, store, keyPath>>

\* request.onsuccess of clearAll, then the rest of clear().
ClearCommit ==
    /\ TxEnds("clear")
    /\ store' = EmptyStore
    /\ Run(Head(txq).peer, "clear-done",
           clearDone(peers[Head(txq).peer]), <<>>, 0, FALSE, inbox, Tail(txq))
    /\ hist' = [hist EXCEPT !.cleared[Head(txq).peer] =
                                IF @ = "pending" THEN "done" ELSE @,
                            !.lastWrite = [q \in Peers |-> NoWrite],
                            !.forwarded = NoWrite]

\* request.onerror of clearAll: clear() rejects.
ClearFail ==
    /\ TxEnds("clear")
    /\ Run(Head(txq).peer, "clear-fail", peers[Head(txq).peer], <<>>, 0, FALSE,
           inbox, Tail(txq))
    /\ hist' = [hist EXCEPT !.failed = TRUE, !.cleared[Head(txq).peer] = "no"]
    /\ UNCHANGED store

\* A transaction without handlers commits or aborts: its tab is gone, or
\* flush threw while filling it.
Orphan(commit) ==
    /\ txq # <<>>
    /\ \/ ~Up(Head(txq).peer)
       \/ Head(txq).kind = "thrown" /\ LoopMay(Head(txq).peer)
    /\ store' = IF ~commit THEN store
                ELSE IF Head(txq).kind = "clear" THEN EmptyStore
                ELSE transact(store, Head(txq).ops)
    /\ txq' = Tail(txq)
    /\ last' = [op |-> "orphan", peer |-> Head(txq).peer, path |-> <<>>,
                val |-> 0, emitted |-> <<>>, posted |-> <<>>, resolved |-> 0,
                notes |-> {}]
    /\ hist' = [hist EXCEPT !.failed = @ \/ ~commit,
                            !.lastWrite = IF commit /\ Head(txq).kind = "clear"
                                          THEN [q \in Peers |-> NoWrite] ELSE @,
                            !.forwarded = IF commit /\ Head(txq).kind = "clear"
                                          THEN NoWrite ELSE @]
    /\ UNCHANGED <<peers, inbox, keyPath>>

OrphanCommit == Orphan(TRUE)
OrphanAbort == Orphan(FALSE)

Idle == [op |-> "init", peer |-> 0, path |-> <<>>, val |-> 0,
         emitted |-> <<>>, posted |-> <<>>, resolved |-> 0, notes |-> {}]

Init ==
    /\ peers = [p \in Peers |-> NewPeer(p)]
    /\ inbox = [p \in Peers |-> <<>>]
    /\ store = EmptyStore
    /\ keyPath \in {"id", "null"}
    /\ txq = <<>>
    /\ last = Idle
    /\ hist = [ops |-> 0, failed |-> FALSE, clears |-> FALSE,
               offTree |-> FALSE, cleared |-> [p \in Peers |-> "no"],
               lastWrite |-> [p \in Peers |-> NoWrite], forwarded |-> NoWrite,
               saved |-> [k \in TopKeys |-> Undef], readAt |-> <<>>]

\* ------------------------------------------- the peer coordinator alone
NextElect ==
    \/ \E p \in Peers : \/ Start(p)
                        \/ Unload(p)
                        \/ Crash(p)
                        \/ Heartbeat(p)
                        \/ RecvAnnounce(p)
                        \/ RecvGoodbye(p)
    \/ Tick

\* The coordinator never touches the object store.
InitElect == Init /\ keyPath = "id"

SpecElect == InitElect /\ [][NextElect]_vars

\* ------------------------------------------------------- the whole program
\* Two tabs.  The application of tab Writer calls the library, at most
\* MaxOps times; tab Observer only runs the library's own tasks.  Observer
\* has the smaller id: Writer is leader while alone and follower while
\* Observer is up.
Writer == 2
Observer == 1

\* The calls of the application: primitives are stored at "x", an object
\* (db.y = {}) at "y", and "x" may take the object of "y".
App(p) ==
    \/ DoneSaving(p)
    \/ SaveAll(p)
    \/ ClearStart(p)
    \/ \E v \in Prims : SetTop(p, "x", v)
    \/ SetTopObj(p, "y", NoFields)
    \/ AliasTop(p, "x", "y")
    \/ \E k \in TopKeys : \/ DeleteTop(p, k)
                          \/ ReadTop(p, k)
    \/ \E f \in Fields : \/ \E v \in Prims : WrapSet(p, f, v)
                         \/ WrapDelete(p, f)

Loop(p) ==
    \/ Start(p)
    \/ RecvAnnounce(p)
    \/ RecvGoodbye(p)
    \/ RecvWriteRequest(p)
    \/ RecvExternalUpdate(p)
    \/ FlushMicrotask(p)

Next ==
    \/ App(Writer)
    \/ \E p \in {Writer, Observer} : Loop(p)
    \/ Unload(Observer)
    \/ FlushCommit
    \/ FlushFail
    \/ FlushAbort
    \/ ClearCommit
    \/ ClearFail
    \/ OrphanCommit
    \/ OrphanAbort

Spec == Init /\ [][Next]_vars

\* --------------------------------------------- forwarding among three tabs
\* Three tabs on a store with keyPath "id"; the application of tab Sender,
\* the largest id, sets and deletes.  A tab that starts last with a smaller
\* id makes the tabs already open followers, so a write-request reaches a
\* leader and a follower.
Sender == 3

InitForward == Init /\ keyPath = "id"

NextForward ==
    \/ \E p \in Peers : \/ Start(p)
                        \/ RecvAnnounce(p)
                        \/ RecvWriteRequest(p)
                        \/ RecvExternalUpdate(p)
                        \/ FlushMicrotask(p)
    \/ SetTop(Sender, "x", 1)
    \/ SetTopObj(Sender, "y", NoFields)
    \/ DeleteTop(Sender, "x")
    \/ FlushCommit

SpecForward == InitForward /\ [][NextForward]_vars

\* The timers fire and the channel delivers: what "all peers keep
\* heartbeating with every broadcast delivered" assumes of the platform.
SpecElectFair ==
    /\ SpecElect
    /\ WF_vars(Tick)
    /\ \A p \in Peers : /\ WF_vars(Heartbeat(p))
                        /\ WF_vars(RecvAnnounce(p))
                        /\ WF_vars(RecvGoodbye(p))

\* ------------------------------------------------------------------ claims
\* The value the mirror of P holds at a path (0: nothing).
MirrorAt(P, path) ==
    IF Len(path) = 1 THEN P.state[path[1]]
    ELSE IF P.state[path[1]] < 0 THEN P.objs[-(P.state[path[1]])][path[2]]
    ELSE 0

Quiet(P) == P.writeQueue = <<>> /\ ~P.flushing /\ ~P.flushScheduled

Distinct(q) ==
    \A i, j \in 1..Len(q) : i # j => q[i].id # q[j].id

\* C1: after a set or delete, at top level or through a wrapper, the
\* writeQueue of the peer holds no two entries for the same path (paths are
\* equal when their key sequences are equal), and after a scheduled flush no
\* transaction holds two operations for one path.
C1_OneEntryPerPath ==
    /\ last.op \in {"set", "delete", "wset", "wdelete"}
          => Distinct(peers[last.peer].writeQueue)
    /\ last.op = "flush" => \A i \in 1..Len(txq) : Distinct(txq[i].ops)

\* C2: when a doneSaving promise resolves on a peer and no transaction has
\* failed, the store holds what the peer enqueued; stated for the peer's most
\* recent set or delete that went to its own writeQueue (hist.lastWrite):
\* its value is in the store at its path, and no record is for a tombstone.
Stored(w) ==
    CASE w.val = 0 -> store[w.path] = Undef
      [] w.val = -1 -> store[w.path].obj
      [] OTHER -> store[w.path] = Prim(w.val)

C2_DrainMeansStored ==
    (last.resolved > 0 /\ ~hist.failed /\ hist.lastWrite[last.peer].path # <<>>)
        => Stored(hist.lastWrite[last.peer])

\* C7: after a local set or delete, at top level or through a wrapper, the
\* mirror holds at the written path the value written (nothing after a
\* delete).  The path is the one the operation reports and enqueues.
C7_MirrorHoldsLastWrite ==
    last.op \in {"set", "delete", "wset", "wdelete"}
        => MirrorAt(peers[last.peer], last.path) = last.val

\* C8: the writer, alone and leader from the empty store on, has set and
\* deleted at top level and through wrappers (never clearing, never storing
\* one object at two keys, never writing through a wrapper of a replaced
\* object), and everything is committed without failure; a peer that attaches
\* now loads a mirror with the same nested structure as the writer's.
C8_ReloadReproducesMirror ==
    (/\ last.op = "createDB" /\ last.peer = Observer
     /\ Up(Writer) /\ Quiet(peers[Writer]) /\ txq = <<>>
     /\ ~hist.failed /\ ~hist.clears /\ ~hist.offTree)
        => Tree(peers[Observer]) = Tree(peers[Writer])

\* C9: after a clear() during which nothing was set has completed on a peer,
\* and until the next set, the peer's mirror has no top-level entry and the
\* store has no record.
C9_ClearedStaysEmpty ==
    \A p \in Peers :
        (Up(p) /\ hist.cleared[p] = "done") =>
            /\ \A k \in TopKeys : peers[p].state[k] = 0
            /\ store = EmptyStore

\* C10: handling an external-update changes only the mirror of the receiver:
\* its writeQueue, flushScheduled and every other part of the write engine
\* stay as they are, nothing is posted (no write-request), no transaction is
\* opened, and external-change and change{type: external} are emitted.
MirrorOnly(P, Q) ==
    [P EXCEPT !.state = Q.state, !.objs = Q.objs, !.proxyCache = Q.proxyCache] = Q

C10_ExternalUpdateOnlyMirror ==
    [][last'.op = "external-update" =>
          /\ MirrorOnly(peers[last'.peer], peers'[last'.peer])
          /\ last'.posted = <<>>
          /\ txq' = txq /\ store' = store
          /\ last'.emitted = <<Event("external-change", <<>>, <<>>),
                               Event("change:external", <<>>, <<>>)>>]_vars

C10_Witness ==
    /\ last.op = "external-update"
    /\ \E k \in TopKeys : peers[last.peer].state[k] # 0
    /\ ~peers[last.peer].isLeader

ElectionRan == last.op \in {"announce", "goodbye"}

\* C3: immediately after any run of electLeader on a peer, its leaderId is
\* the smallest id among the peers it regards as alive: every entry of tabs
\* younger than LEADER_TIMEOUT, and always the peer itself.
C3_LeaderIsSmallestAlive ==
    ElectionRan =>
        peers[last.peer].leaderId
            = Min(alive(peers[last.peer]) \cup {last.peer})

\* C4: with three peers B = 1 < A = 2 < C = 3 that all heartbeat and receive
\* every message, once every peer holds leaderId = B it keeps it for as long
\* as B (and the others) keep heartbeating.
AllUp == \A p \in Peers : Up(p)
AllHold(b) == \A p \in Peers : peers[p].leaderId = b
C4_LeaderBKept == [][(AllUp /\ AllHold(1) /\ AllUp') => AllHold(1)']_vars

\* C5: the peers that keep heartbeating eventually reach, and stay in, a
\* state where exactly one of them has isLeader = TRUE and every one's
\* leaderId is that peer.
Agreed ==
    \/ \A p \in Peers : ~Up(p)
    \/ \E l \in Peers :
          /\ Up(l)
          /\ \A p \in Peers :
                Up(p) => /\ peers[p].leaderId = l
                         /\ peers[p].isLeader = (p = l)
C5_EventuallyOneLeader == <>[]Agreed

\* C6: whenever electLeader runs on a peer, the peer's own id is in the alive
\* set it computes, so the set is not empty and the early return that keeps
\* the previous leader is not taken.
C6_SelfAlwaysAlive ==
    ElectionRan =>
        /\ last.peer \in alive(peers[last.peer])
        /\ "alive-empty" \notin last.notes

\* C11: every transaction that changes the object store (the puts and deletes
\* of a flush, the store-wide clear of clear()) is opened by a peer whose
\* isLeader is TRUE when it opens it.
C11_OnlyLeaderMutates ==
    [][Len(txq') > Len(txq) => peers[last'.peer].isLeader]_vars

\* C12: on one peer at most one transaction opened by flush is unfinished at
\* any time.
FlushTxs(p) ==
    {i \in 1..Len(txq) : txq[i].peer = p /\ txq[i].kind \in {"flush", "thrown"}}

C12_OneFlushInFlight == \A p \in Peers : Cardinality(FlushTxs(p)) <= 1

\* C13: Observer is the stable leader and Writer its follower, no transaction
\* has failed and every message has been delivered; once the follower's most
\* recent write (hist.forwarded) is in the store and nothing is pending any
\* more, the mirror of every peer, the leader's included, holds that value at
\* that path.
Settled ==
    /\ Up(Writer) /\ Up(Observer)
    /\ peers[Observer].isLeader /\ ~peers[Writer].isLeader
    /\ peers[Writer].leaderId = Observer
    /\ \A p \in Peers : inbox[p] = <<>>
    /\ txq = <<>> /\ Quiet(peers[Writer]) /\ Quiet(peers[Observer])
    /\ ~hist.failed /\ ~hist.offTree

Holds(P, w) ==
    CASE w.val = 0 -> MirrorAt(P, w.path) = 0
      [] w.val = -1 -> MirrorAt(P, w.path) < 0
      [] OTHER -> MirrorAt(P, w.path) = w.val

C13_EveryMirrorHoldsWrite ==
    (Settled /\ hist.forwarded.path # <<>> /\ Stored(hist.forwarded))
        => \A p \in {Writer, Observer} : Holds(peers[p], hist.forwarded)

\* C14: doneSaving resolves its promise at once exactly when the writeQueue
\* is empty and no flush is scheduled or in flight; a promise it left pending
\* is resolved only in a state where the writeQueue is empty and no flush is
\* in flight.
C14_ResolvedOnlyWhenDrained ==
    LET P == peers[last.peer]
    IN /\ last.op = "doneSaving" => (last.resolved > 0 <=> Quiet(P))
       /\ (last.resolved > 0 /\ last.op # "doneSaving")
             => (P.writeQueue = <<>> /\ ~P.flushing)

\* C15: when the promise of saveall() resolves on a leader and no transaction
\* has failed, every top-level entry the mirror had when saveall was called
\* is in the store with that value.  A promise that resolves in the call's
\* own task is compared with the mirror of that state, one that resolves
\* with its transaction with hist.saved.
C15_SaveallMeansStored ==
    LET P == peers[last.peer]
    IN ("saveall-resolved" \in last.notes /\ ~hist.failed /\ P.isLeader)
         => IF last.op = "saveall"
            THEN \A k \in TopKeys :
                    P.state[k] # 0 => store[<<k>>] = Clone(P, P.state[k])
            ELSE \A k \in TopKeys :
                    hist.saved[k] # Undef => store[<<k>>] = hist.saved[k]

\* C16: a set or delete on a peer that is not leader posts exactly one
\* write-request with the path and the value, and leaves the peer's
\* writeQueue and flushScheduled as they were; a leader that receives a
\* write-request appends it to its writeQueue and has a flush scheduled; a
\* peer that is not leader and receives one changes nothing and posts
\* nothing.
Forwards(P, Q) ==
    /\ last'.posted = <<Msg("write-request", 0, last'.path,
                             Clone(Q, last'.val), <<>>)>>
    /\ Q.writeQueue = P.writeQueue
    /\ Q.flushScheduled = P.flushScheduled

Enqueues(P, Q, m) ==
    LET n == Len(Q.writeQueue)
    IN /\ n = Len(P.writeQueue) + 1
       /\ SubSeq(Q.writeQueue, 1, n - 1) = P.writeQueue
       /\ Q.writeQueue[n].id = m.key
       /\ Clone(Q, Q.writeQueue[n].val) = m.value
       /\ Q.flushScheduled
       /\ last'.posted = <<>>

C16_ForwardedNotQueued ==
    [][LET p == last'.peer
           P == peers[p]
           Q == peers'[p]
       IN /\ (last'.op \in {"set", "delete", "wset", "wdelete"} /\ ~P.isLeader)
                => Forwards(P, Q)
          /\ (last'.op = "write-request" /\ P.isLeader)
                => Enqueues(P, Q, Head(inbox[p]))
          /\ (last'.op = "write-request" /\ ~P.isLeader)
                => (Q = P /\ last'.posted = <<>> /\ txq' = txq)]_vars

C16_Witness ==
    /\ last.op = "write-request"
    /\ ~peers[last.peer].isLeader
    /\ \E q \in Peers : Up(q) /\ peers[q].isLeader /\ peers[q].writeQueue # <<>>

\* C17: when the transaction of a flush fails, the store and the writeQueue
\* are as they were (the batch is in neither, nothing is queued again), no
\* external-update is posted, no flush event is emitted, and the flush call
\* rejects.
FlushFailedStep == last'.op \in {"flush-fail", "flush-abort"}

C17_FailedBatchLostAndRejected ==
    [][FlushFailedStep =>
          /\ store' = store
          /\ peers'[last'.peer].writeQueue = peers[last'.peer].writeQueue
          /\ last'.posted = <<>> /\ last'.emitted = <<>>
          /\ "flush-rejected" \in last'.notes]_vars

\* C18: after the transaction of a flush has ended, by commit or by failure,
\* flushing is FALSE, every doneSaving promise pending until then has been
\* resolved, and a flush is scheduled if the writeQueue is not empty.
FlushEndedStep == last'.op \in {"flush-commit", "flush-fail", "flush-abort"}

C18_FlushEndReleases ==
    [][FlushEndedStep =>
          LET P == peers[last'.peer]
              Q == peers'[last'.peer]
          IN /\ ~Q.flushing
             /\ Q.pendingResolves = 0 /\ last'.resolved = P.pendingResolves
             /\ Q.writeQueue # <<>> => Q.flushScheduled]_vars

\* C19: an external-update is posted and a flush event emitted only by the
\* step in which the transaction of a flush commits, and the items of the
\* message are the operations of that transaction; a flush on a peer that is
\* not leader or whose writeQueue is empty leaves the store, the writeQueue
\* and the transaction queue alone and posts nothing.
Announces(r) ==
    \/ \E i \in 1..Len(r.posted) : r.posted[i].type = "external-update"
    \/ \E i \in 1..Len(r.emitted) : r.emitted[i].name = "flush"

C19_UpdateIsCommittedBatch ==
    [][LET P == peers[last'.peer]
           Q == peers'[last'.peer]
       IN /\ Announces(last') => last'.op = "flush-commit"
          /\ last'.op = "flush-commit"
                => /\ store' = transact(store, Head(txq).ops)
                   /\ last'.posted = <<Msg("external-update", 0, <<>>, Undef,
                                           Head(txq).ops)>>
                   /\ last'.emitted = <<Event("flush", <<>>, <<>>)>>
          /\ (last'.op = "flush" /\ (~P.isLeader \/ P.writeQueue = <<>>))
                => /\ store' = store /\ txq' = txq
                   /\ Q.writeQueue = P.writeQueue
                   /\ last'.posted = <<>>]_vars

\* C20: a local set or delete, at top level or through a wrapper, emits the
\* granular event (set or delete) and then the generic change event, after
\* the mirror has been updated and the write handed to queueWrite: the
\* write-request a follower posts carries the value the mirror now holds.
Names(es) == [i \in 1..Len(es) |-> es[i].name]

C20_GranularThenChange ==
    LET P == peers[last.peer]
    IN /\ last.op \in {"set", "wset"}
             => Names(last.emitted) = <<"set", "change:set">>
       /\ last.op \in {"delete", "wdelete"}
             => Names(last.emitted) = <<"delete", "change:delete">>
       /\ (last.op \in {"set", "delete"} /\ last.posted # <<>>)
             => last.posted[1].value = Clone(P, MirrorAt(P, last.path))

\* C21: an election on a peer emits leader-stepped-down, with the peer's own
\* id as oldLeaderId and the new leaderId, exactly when it changes isLeader
\* from TRUE to FALSE, and leader-elected, with the peer's own id, exactly
\* when it changes isLeader from FALSE to TRUE; every other election emits
\* nothing, and no other task emits either event.
LeaderEvents(p, was, is, leader) ==
    IF was /\ ~is
    THEN <<Event("leader-stepped-down", <<>>, <<p, leader>>)>>
    ELSE IF ~was /\ is THEN <<Event("leader-elected", <<>>, <<p>>)>>
    ELSE <<>>

C21_LeaderEventsOnChange ==
    [][LET p == last'.peer
       IN IF last'.op \in {"announce", "goodbye"}
          THEN last'.emitted = LeaderEvents(p, peers[p].isLeader,
                                            peers'[p].isLeader,
                                            peers'[p].leaderId)
          ELSE \A i \in 1..Len(last'.emitted) :
                  last'.emitted[i].name
                      \notin {"leader-stepped-down", "leader-elected"}]_vars

C21_Witness ==
    /\ last.op = "goodbye"
    /\ last.emitted = <<Event("leader-elected", <<>>, <<last.peer>>)>>
    /\ \E q \in Peers \ {last.peer} : Up(q) /\ peers[q].leaderId = last.peer

\* C22: a set or delete of field f through the wrapper the application got by
\* reading path p hands queueWrite the path p followed by f: that is the id
\* of the entry a leader appends to its writeQueue and the key of the
\* write-request a follower posts.
Enqueued(r, P) ==
    IF r.posted # <<>> THEN r.posted[1].key
    ELSE P.writeQueue[Len(P.writeQueue)].id

C22_WrapperPathIsReadPath ==
    last.op \in {"wset", "wdelete"}
        => Enqueued(last, peers[last.peer])
               = hist.readAt \o <<last.path[Len(last.path)]>>

\* C23: after a peer has handled a goodbye from peer P, its tabs has no entry
\* for P and its leaderId is not P; after it has handled a hello or a
\* heartbeat from P, the entry of P has the time of receipt (age 0) and its
\* leaderId is the smallest id the table holds as alive.
C23_TableFollowsMessages ==
    [][LET p == last'.peer
           P == Head(inbox[p]).id
           Q == peers'[p]
       IN /\ last'.op = "goodbye"
                => (Q.tabs[P] = NoTab /\ Q.leaderId # P)
          /\ last'.op = "announce"
                => (Q.tabs[P] = 0 /\ Q.leaderId = Min(alive(Q)))]_vars

\* C24: whenever a peer is leader and its writeQueue is not empty, a flush is
\* scheduled or in flight on it (so that the entries are removed once the
\* transactions end), also after the peer has stepped down with entries
\* queued and has been elected again.
C24_QueuedMeansFlushPending ==
    \A p \in Peers :
        (Up(p) /\ peers[p].isLeader /\ peers[p].writeQueue # <<>>)
            => (peers[p].flushScheduled \/ peers[p].flushing)

\* C25: on every peer, from its construction on and after every election,
\* isLeader is TRUE exactly when leaderId is the peer's own id.
C25_FlagMatchesLeaderId ==
    \A p \in Peers : peers[p].isLeader <=> (peers[p].leaderId = peers[p].TAB_ID)

C25_Witness ==
    /\ last.op \in {"announce", "goodbye"}
    /\ \E p, q \in Peers :
          /\ Up(p) /\ ~peers[p].isLeader /\ peers[p].leaderId = q
          /\ Up(q) /\ peers[q].isLeader /\ q # p
          /\ peers[q].tabs[p] # NoTab

\* C26: once a clear() has completed on a peer, every message has been
\* delivered, no transaction is open and the store is still empty, the mirror
\* of every other peer has no top-level entry either.
C26_ClearReachesEveryMirror ==
    \A p \in Peers :
        (/\ Up(p) /\ hist.cleared[p] = "done"
         /\ store = EmptyStore /\ txq = <<>>
         /\ \A q \in Peers : inbox[q] = <<>>)
            => \A q \in Peers \ {p} :
                  Up(q) => \A k \in TopKeys : peers[q].state[k] = 0
=============================================================================
